---- MODULE Spec2Model ----
(***************************************************************************)
(* Math Mentor Live: the realtime session pipeline of src/App.tsx as a     *)
(* state machine.  React state and refs of the App component are the       *)
(* variables; every event handler, callback and await continuation is one  *)
(* action.  Sessions are numbered in the order startTutoring is invoked;   *)
(* the closures of one invocation (its audio contexts, its transport, its  *)
(* session promise) are the entries of the per-session functions.          *)
(***************************************************************************)
EXTENDS Integers, Sequences, FiniteSets, TLC

\* ------------------------------------------------------------------ bounds
MaxSessions == 2    \* invocations of startTutoring in one behaviour
MaxLen == 3         \* longest ActiveBuffer content (characters)
MaxHist == 2        \* longest transcript history (entries)
MaxCalls == 2       \* most requests in one tool-call event
MaxDur == 2         \* longest audio chunk (clock ticks)
MaxClock == 2       \* last tick of an output clock
MaxCursor == 4      \* largest playback cursor
MaxDecoding == 1    \* onmessage handlers suspended in decodeAudioData
MaxInFlight == 1    \* canvas.toBlob encodings in flight per sampler
MaxRubricLen == 3   \* longest rubric text (characters)
MaxGrading == 2     \* most generateContent requests in flight

Sessions == 1..MaxSessions

Max(a, b) == IF a >= b THEN a ELSE b

\* ----------------------------------------------------------------- strings
\* A string is a sequence of characters; " " is the whitespace character.
Chars == {" ", "a"}

RECURSIVE TrimStart(_)
TrimStart(str) ==
  IF str # <<>> /\ Head(str) = " " THEN TrimStart(Tail(str)) ELSE str

RECURSIVE TrimEnd(_)
TrimEnd(str) ==
  IF str # <<>> /\ str[Len(str)] = " "
    THEN TrimEnd(SubSeq(str, 1, Len(str) - 1))
    ELSE str

\* String.prototype.trim
Trim(str) == TrimEnd(TrimStart(str))

\* every string over cs of length at most n
Strings(cs, n) == UNION {[1..k -> cs] : k \in 0..n}

\* " [Interrupted]": a space, then the bracketed word (one character here)
NoMarker == <<>>
InterruptedMarker == <<" ", "[Interrupted]">>

\* ------------------------------------------------------------ constants
IDLE == "IDLE"
CONNECTING == "CONNECTING"
CONNECTED == "CONNECTED"
ERROR == "ERROR"

NoError == "null"
SessionErrorMsg == "An error occurred during the session."
InitErrorMsg == "Failed to initialize session."
GradingErrorMsg == "Grading process failed. Please try again."

DrawSquare == "draw_square"
UnknownTool == "erase_all"
ToolOk == "ok"
ToolNotFound == "error: tool not found"

BaseSystemInstruction == "BASE_SYSTEM_INSTRUCTION"
GreetClause == "INITIALIZATION: ... You MUST start the conversation immediately ..."
WaitClause == "INITIALIZATION: ... You MUST NOT speak first ..."
RubricHeader == "SPECIFIC RUBRIC/INSTRUCTIONS FROM TEACHER:\n"
Blank == "\n\n"

\* the rubric the component is constructed with (non-empty after trimming)
DefaultRubric == <<"r">>
RubricChars == {" ", "r"}

\* ------------------------------------------------------------------ state
VARIABLES
  \* React state
  status, transcriptions, error, rubric, finalGrade, isGrading,
  activeUserText, activeModelText,
  \* refs
  currentInputRef, currentOutputRef, audioContextInRef, audioContextOutRef,
  nextStartTimeRef, sourcesRef, canvasRef, sessionRef, intervalRef,
  \* per invocation of startTutoring
  nSessions,      \* invocations so far
  pc,             \* where the invocation is: none, mic, connect, done
  closureRubric,  \* the rubric of the render the invocation closed over
  instruction,    \* config.systemInstruction handed to ai.live.connect
  ctxIn, ctxOut,  \* the invocation's AudioContexts: none, running, closed
  clock,          \* currentTime of the invocation's output AudioContext
  ws,             \* its transport: none, connecting, open, failed, closed
  sessionPromise, \* none, pending, resolved, rejected
  capture,        \* scriptProcessor.onaudioprocess is wired
  timers,         \* invocations whose setInterval timer is not cleared
  imgInFlight,    \* toBlob / FileReader encodings not yet completed
  decoding,       \* onmessage handlers suspended at await decodeAudioData
  grading,        \* generateContent requests not yet settled
  \* what the last step did and emitted (observation only)
  ev, outbox, tornDown

vars == <<status, transcriptions, error, rubric, finalGrade, isGrading,
          activeUserText, activeModelText, currentInputRef, currentOutputRef,
          audioContextInRef, audioContextOutRef, nextStartTimeRef, sourcesRef,
          canvasRef, sessionRef, intervalRef, nSessions, pc, closureRubric,
          instruction, ctxIn, ctxOut, clock, ws, sessionPromise, capture, timers,
          imgInFlight, decoding, grading, ev, outbox, tornDown>>

NoGrade == [grade |-> "null", feedback |-> "null"]

\* the observation record of a step: only op and s are set by every step; from
\* is the status a teardown started from, inText and outText the transcription
\* texts of the message, body the grading response
Ev(op, s) ==
  [op |-> op, s |-> s, from |-> "",
   toolCall |-> FALSE, calls |-> <<>>, draws |-> <<>>,
   interrupted |-> FALSE, stopped |-> 0,
   turnComplete |-> FALSE, tcIn |-> <<>>, tcOut |-> <<>>,
   inText |-> <<>>, outText |-> <<>>, body |-> <<>>,
   teardown |-> FALSE, prevTeardown |-> FALSE, cleared |-> {}]

Init ==
  /\ status = IDLE
  /\ transcriptions = <<>>
  /\ error = NoError
  /\ rubric = DefaultRubric
  /\ finalGrade = NoGrade
  /\ isGrading = FALSE
  /\ activeUserText = <<>>
  /\ activeModelText = <<>>
  /\ currentInputRef = <<>>
  /\ currentOutputRef = <<>>
  /\ audioContextInRef = 0
  /\ audioContextOutRef = 0
  /\ nextStartTimeRef = 0
  /\ sourcesRef = {}
  /\ canvasRef = FALSE
  /\ sessionRef = 0
  /\ intervalRef = 0
  /\ nSessions = 0
  /\ pc = [s \in Sessions |-> "none"]
  /\ closureRubric = [s \in Sessions |-> <<>>]
  /\ instruction = [s \in Sessions |-> <<>>]
  /\ ctxIn = [s \in Sessions |-> "none"]
  /\ ctxOut = [s \in Sessions |-> "none"]
  /\ clock = [s \in Sessions |-> 0]
  /\ ws = [s \in Sessions |-> "none"]
  /\ sessionPromise = [s \in Sessions |-> "none"]
  /\ capture = [s \in Sessions |-> FALSE]
  /\ timers = {}
  /\ imgInFlight = [s \in Sessions |-> 0]
  /\ decoding = <<>>
  /\ grading = 0
  /\ ev = Ev("init", 0)
  /\ outbox = <<>>
  /\ tornDown = {}

\* ---------------------------------------------------------------- teardown
textVars == <<activeUserText, activeModelText, currentInputRef, currentOutputRef>>
gradeVars == <<finalGrade, isGrading, grading>>

\* AudioContext.close() of the context a ref holds (0: the ref is null)
Closed(ctx, ref) ==
  [s \in Sessions |-> IF s = ref THEN "closed" ELSE ctx[s]]

\* cleanup, without the buffers and live texts being cleared
cleanupKeepsBuffers ==
  /\ timers' = timers \ {intervalRef}
  /\ ctxIn' = Closed(ctxIn, audioContextInRef)
  /\ ctxOut' = Closed(ctxOut, audioContextOutRef)
  /\ sourcesRef' = {}
  /\ sessionRef' = 0
  /\ status' = IDLE
  /\ UNCHANGED <<activeUserText, activeModelText, currentInputRef, currentOutputRef>>
  /\ tornDown' = tornDown \cup {s \in Sessions : pc[s] # "none"}

\* cleanup, without the session reference being dropped
cleanupKeepsSession ==
  /\ timers' = timers \ {intervalRef}
  /\ ctxIn' = Closed(ctxIn, audioContextInRef)
  /\ ctxOut' = Closed(ctxOut, audioContextOutRef)
  /\ sourcesRef' = {}
  /\ sessionRef' = sessionRef
  /\ status' = IDLE
  /\ activeUserText' = <<>>
  /\ activeModelText' = <<>>
  /\ currentInputRef' = <<>>
  /\ currentOutputRef' = <<>>
  /\ tornDown' = tornDown \cup {s \in Sessions : pc[s] # "none"}

\* cleanup (App.tsx 93-105).  tornDown records the invocations started before it.
cleanup ==
  /\ timers' = timers \ {intervalRef}
  /\ ctxIn' = Closed(ctxIn, audioContextInRef)
  /\ ctxOut' = Closed(ctxOut, audioContextOutRef)
  /\ sourcesRef' = {}
  /\ sessionRef' = 0
  /\ status' = IDLE
  /\ activeUserText' = <<>>
  /\ activeModelText' = <<>>
  /\ currentInputRef' = <<>>
  /\ currentOutputRef' = <<>>
  /\ tornDown' = tornDown \cup {s \in Sessions : pc[s] # "none"}

\* the observation of a step that ran cleanup
Teardown(op, s) ==
  [Ev(op, s) EXCEPT !.teardown = TRUE, !.prevTeardown = ev.teardown,
                    !.from = status]

\* ------------------------------------------------------------------- start
\* hasRubric without the trim
HasRubricUntrimmed(r) == r # <<>>

\* hasRubric (App.tsx 152)
HasRubric(r) == r # <<>> /\ Len(Trim(r)) > 0

\* finalInstruction (App.tsx 154-158), a sequence of text pieces
FinalInstruction(r) ==
  <<BaseSystemInstruction, Blank,
    IF HasRubric(r) THEN GreetClause ELSE WaitClause, Blank>>
  \o (IF HasRubric(r) THEN <<RubricHeader>> \o r ELSE <<>>)

\* a Start button that is always enabled
StartAlways == TRUE

\* the Start button is rendered unless CONNECTED and disabled while CONNECTING
StartEnabled == status # CONNECTED /\ status # CONNECTING
\* what an earlier session has left in the observable state
Leftovers ==
  (IF error # NoError THEN {"error"} ELSE {})
    \cup (IF finalGrade # NoGrade THEN {"grade"} ELSE {})
    \cup (IF transcriptions # <<>> THEN {"history"} ELSE {})

\* startTutoring, were it to keep the history of the earlier session
StartTutoringKeepsHistory ==
  /\ StartEnabled
  /\ nSessions < MaxSessions
  /\ LET s == nSessions + 1 IN
     /\ nSessions' = s
     /\ status' = CONNECTING
     /\ error' = NoError
     /\ finalGrade' = NoGrade
     /\ ctxIn' = [ctxIn EXCEPT ![s] = "running"]
     /\ ctxOut' = [ctxOut EXCEPT ![s] = "running"]
     /\ audioContextInRef' = s
     /\ audioContextOutRef' = s
     /\ pc' = [pc EXCEPT ![s] = "mic"]
     /\ closureRubric' = [closureRubric EXCEPT ![s] = rubric]
     /\ ev' = [Ev("start", s) EXCEPT !.cleared = Leftovers]
     /\ outbox' = <<>>
  /\ UNCHANGED <<transcriptions, rubric, isGrading, grading, textVars,
                 nextStartTimeRef, sourcesRef, canvasRef, sessionRef,
                 intervalRef, instruction,
                 clock, ws, sessionPromise, capture, timers, imgInFlight,
                 decoding, tornDown>>

\* startTutoring up to await getUserMedia (App.tsx 136-150)
StartTutoring ==
  /\ StartEnabled
  /\ nSessions < MaxSessions
  /\ LET s == nSessions + 1 IN
     /\ nSessions' = s
     /\ status' = CONNECTING
     /\ error' = NoError
     /\ finalGrade' = NoGrade
     /\ transcriptions' = <<>>
     /\ ctxIn' = [ctxIn EXCEPT ![s] = "running"]
     /\ ctxOut' = [ctxOut EXCEPT ![s] = "running"]
     /\ audioContextInRef' = s
     /\ audioContextOutRef' = s
     /\ pc' = [pc EXCEPT ![s] = "mic"]
     /\ closureRubric' = [closureRubric EXCEPT ![s] = rubric]
     /\ ev' = [Ev("start", s) EXCEPT !.cleared = Leftovers]
     /\ outbox' = <<>>
  /\ UNCHANGED <<rubric, isGrading, grading, textVars, nextStartTimeRef,
                 sourcesRef, canvasRef, sessionRef, intervalRef, instruction,
                 clock, ws, sessionPromise, capture, timers, imgInFlight,
                 decoding, tornDown>>

\* getUserMedia resolves: the instruction is built and ai.live.connect is
\* called (App.tsx 150-293); startTutoring then awaits sessionPromise
MicGranted(s) ==
  /\ pc[s] = "mic"
  /\ pc' = [pc EXCEPT ![s] = "connect"]
  /\ instruction' = [instruction EXCEPT ![s] = FinalInstruction(closureRubric[s])]
  /\ ws' = [ws EXCEPT ![s] = "connecting"]
  /\ sessionPromise' = [sessionPromise EXCEPT ![s] = "pending"]
  /\ ev' = Ev("micGranted", s)
  /\ outbox' = <<>>
  /\ UNCHANGED <<status, transcriptions, error, rubric, gradeVars, textVars,
                 audioContextInRef, audioContextOutRef, nextStartTimeRef,
                 sourcesRef, canvasRef, sessionRef, intervalRef, nSessions,
                 closureRubric, ctxIn, ctxOut, clock, capture, timers,
                 imgInFlight, decoding, tornDown>>

\* the catch block of startTutoring (App.tsx 296-300): setStatus(ERROR) is
\* followed by cleanup's setStatus(IDLE) in the same handler
StartFailed(op, s) ==
  /\ error' = InitErrorMsg
  /\ cleanup
  /\ pc' = [pc EXCEPT ![s] = "done"]
  /\ ev' = Teardown(op, s)
  /\ outbox' = <<>>
  /\ UNCHANGED <<transcriptions, rubric, gradeVars, audioContextInRef,
                 audioContextOutRef, nextStartTimeRef, canvasRef, intervalRef,
                 nSessions, closureRubric, instruction, clock, capture,
                 imgInFlight, decoding>>

\* getUserMedia rejects
MicDenied(s) ==
  /\ pc[s] = "mic"
  /\ StartFailed("micDenied", s)
  /\ UNCHANGED <<ws, sessionPromise>>

\* ai.live.connect rejects before the transport opened
ConnectRejected(s) ==
  /\ pc[s] = "connect"
  /\ ws[s] = "connecting"
  /\ sessionPromise[s] = "pending"
  /\ StartFailed("connectRejected", s)
  /\ ws' = [ws EXCEPT ![s] = "closed"]
  /\ sessionPromise' = [sessionPromise EXCEPT ![s] = "rejected"]

\* callbacks.onopen (App.tsx 163-191)
OnOpen(s) ==
  /\ ws[s] = "connecting"
  /\ ws' = [ws EXCEPT ![s] = "open"]
  /\ status' = CONNECTED
  /\ capture' = [capture EXCEPT ![s] = TRUE]
  /\ timers' = timers \cup {s}
  /\ intervalRef' = s
  /\ ev' = Ev("open", s)
  /\ outbox' = <<>>
  /\ UNCHANGED <<transcriptions, error, rubric, gradeVars, textVars,
                 audioContextInRef, audioContextOutRef, nextStartTimeRef,
                 sourcesRef, canvasRef, sessionRef, nSessions, pc,
                 closureRubric, instruction, ctxIn, ctxOut, clock,
                 sessionPromise, imgInFlight, decoding, tornDown>>

\* sessionPromise resolves once the transport is open, and startTutoring
\* resumes: sessionRef.current = await sessionPromise (App.tsx 295)
ConnectResolved(s) ==
  /\ pc[s] = "connect"
  /\ ws[s] = "open"
  /\ sessionPromise[s] = "pending"
  /\ sessionPromise' = [sessionPromise EXCEPT ![s] = "resolved"]
  /\ sessionRef' = s
  /\ pc' = [pc EXCEPT ![s] = "done"]
  /\ ev' = Ev("resolved", s)
  /\ outbox' = <<>>
  /\ UNCHANGED <<status, transcriptions, error, rubric, gradeVars, textVars,
                 audioContextInRef, audioContextOutRef, nextStartTimeRef,
                 sourcesRef, canvasRef, intervalRef, nSessions, closureRubric,
                 instruction, ctxIn, ctxOut, clock, ws, capture, timers,
                 imgInFlight, decoding, tornDown>>

\* ---------------------------------------------------------- inbound events
ArgSet == {[x |-> 500, y |-> 500, size |-> 100], [x |-> 0, y |-> 1000, size |-> 50]}
Calls == [id : 1..MaxCalls, name : {DrawSquare, UnknownTool}, args : ArgSet]
CallSeqs == UNION {[1..n -> Calls] : n \in 0..MaxCalls}
Chunks == Strings(Chars, 1)

\* a LiveServerMessage: toolCall says whether message.toolCall is present,
\* audio is the duration of the inline audio chunk (0: none), inputText and
\* outputText are the transcription texts (empty: none)
Msg(tc, calls, audio, intr, inT, outT, done) ==
  [toolCall |-> tc, functionCalls |-> calls, audio |-> audio,
   interrupted |-> intr, inputText |-> inT, outputText |-> outT,
   turnComplete |-> done]

ToolCallEvents == {Msg(TRUE, c, 0, FALSE, <<>>, <<>>, FALSE) : c \in CallSeqs}

ServerContent(A, T) ==
  {Msg(FALSE, <<>>, a, i, x, y, d) :
     a \in A, i \in BOOLEAN, x \in T, y \in T, d \in BOOLEAN}

\* the toolCall branch with every request answered "ok"
AllOkResponses(calls) ==
  [i \in 1..Len(calls) |->
     [id |-> calls[i].id, name |-> calls[i].name, result |-> ToolOk]]

\* functionResponses (App.tsx 195-210)
FunctionResponses(calls) ==
  [i \in 1..Len(calls) |->
     [id |-> calls[i].id, name |-> calls[i].name,
      result |-> IF calls[i].name = DrawSquare THEN ToolOk ELSE ToolNotFound]]

\* the outbound messages of one handler: sendToolResponse, sendRealtimeInput,
\* generateContent.  delivered: the transport of s is open when it is sent.
Out(kind, s, body) ==
  [kind |-> kind, s |-> s, body |-> body, delivered |-> ws[s] = "open"]

\* only the requests for the declared tool are answered
SendKnownToolResponses(s, m) ==
  IF m.toolCall /\ SelectSeq(m.functionCalls, LAMBDA c : c.name = DrawSquare) # <<>>
    THEN <<Out("toolResponse", s,
               FunctionResponses(SelectSeq(m.functionCalls, LAMBDA c : c.name = DrawSquare)))>>
    ELSE <<>>

\* sessionPromise.then(session => session.sendToolResponse(...)) (App.tsx 212-214)
SendToolResponses(s, m) ==
  IF m.toolCall /\ Len(FunctionResponses(m.functionCalls)) > 0
    THEN <<Out("toolResponse", s, FunctionResponses(m.functionCalls))>>
    ELSE <<>>

\* the squares drawHighlightSquare strokes (App.tsx 111-134, 196-198)
Draws(m) ==
  IF m.toolCall /\ canvasRef
    THEN [i \in 1..Len(SelectSeq(m.functionCalls, LAMBDA c : c.name = DrawSquare)) |->
            SelectSeq(m.functionCalls, LAMBDA c : c.name = DrawSquare)[i].args]
    ELSE <<>>

\* the observation of the toolCall branch
ToolEv(e, m) ==
  IF m.toolCall
    THEN [e EXCEPT !.toolCall = TRUE, !.calls = m.functionCalls, !.draws = Draws(m)]
    ELSE e

\* historyToAppend with buffers tested for emptiness before trimming
HistoryUntrimmedTest(in, out) ==
  (IF in # <<>> THEN <<[role |-> "user", text |-> Trim(in)]>> ELSE <<>>)
  \o (IF out # <<>> THEN <<[role |-> "model", text |-> Trim(out)]>> ELSE <<>>)

\* historyToAppend with the Mentor entry first
HistoryMentorFirst(in, out) ==
  (IF Trim(out) # <<>> THEN <<[role |-> "model", text |-> Trim(out)]>> ELSE <<>>)
  \o (IF Trim(in) # <<>> THEN <<[role |-> "user", text |-> Trim(in)]>> ELSE <<>>)

\* historyToAppend (App.tsx 257-263)
HistoryToAppend(in, out) ==
  (IF Trim(in) # <<>> THEN <<[role |-> "user", text |-> Trim(in)]>> ELSE <<>>)
  \o (IF Trim(out) # <<>> THEN <<[role |-> "model", text |-> Trim(out)]>> ELSE <<>>)

\* the history replaced by the entries of the turn
CommittedReplaces(hist, in, out) == HistoryToAppend(in, out)

\* setTranscriptions(prev => [...prev, ...historyToAppend]) (App.tsx 265-267)
Committed(hist, in, out) == hist \o HistoryToAppend(in, out)

\* the cursor after the interruption branch, were it set to the clock
CursorToClock == IF audioContextOutRef = 0 THEN 0 ELSE clock[audioContextOutRef]

\* nextStartTimeRef.current = 0 (App.tsx 238)
CursorAfterInterrupt == 0

\* the pending set after the interruption branch, were the sources left in it
PendingKept(srcs) == srcs

\* sourcesRef.current.forEach(s => s.stop()); sourcesRef.current.clear()
\* (App.tsx 236-237)
PendingAfterInterrupt(srcs) == {}

\* onmessage after the audio branch (App.tsx 234-274): interruption,
\* transcription aggregation, turn completion.  srcs and cur are the pending
\* set and the cursor the audio branch left; e is the observation so far.
Finish(e, m, srcs, cur) ==
  LET out1 == IF m.interrupted THEN currentOutputRef \o InterruptedMarker
                               ELSE currentOutputRef
      in2 == currentInputRef \o m.inputText
      out2 == out1 \o m.outputText
      actU == IF m.inputText # <<>> THEN in2 ELSE activeUserText
      actM == IF m.outputText # <<>> THEN out2
              ELSE IF m.interrupted THEN out1 ELSE activeModelText
      e0 == [e EXCEPT !.inText = m.inputText, !.outText = m.outputText]
      e1 == IF m.interrupted
              THEN [e0 EXCEPT !.interrupted = TRUE, !.stopped = Cardinality(srcs)]
              ELSE e0
  IN
  /\ Len(in2) <= MaxLen
  /\ Len(out2) <= MaxLen
  /\ sourcesRef' = IF m.interrupted THEN PendingAfterInterrupt(srcs) ELSE srcs
  /\ nextStartTimeRef' = IF m.interrupted THEN CursorAfterInterrupt ELSE cur
  /\ IF m.turnComplete
       THEN /\ Len(transcriptions) + Len(HistoryToAppend(in2, out2)) <= MaxHist
            /\ transcriptions' = Committed(transcriptions, in2, out2)
            /\ currentInputRef' = <<>>
            /\ currentOutputRef' = <<>>
            /\ activeUserText' = <<>>
            /\ activeModelText' = <<>>
            /\ ev' = [e1 EXCEPT !.turnComplete = TRUE, !.tcIn = in2, !.tcOut = out2]
       ELSE /\ transcriptions' = transcriptions
            /\ currentInputRef' = in2
            /\ currentOutputRef' = out2
            /\ activeUserText' = actU
            /\ activeModelText' = actM
            /\ ev' = e1

\* the cursor left where it was when a chunk arrives
CursorKept == nextStartTimeRef

\* Math.max(nextStartTimeRef.current, outCtx.currentTime) (App.tsx 222)
CursorAtEnqueue == Max(nextStartTimeRef, clock[audioContextOutRef])

\* callbacks.onmessage up to await decodeAudioData, or to its end when the
\* message carries no audio or there is no output context (App.tsx 192-275)
OnMessage(s, m) ==
  /\ ws[s] = "open"
  /\ sessionPromise[s] = "resolved"
  /\ outbox' = SendToolResponses(s, m)
  /\ IF m.audio > 0 /\ audioContextOutRef # 0
       THEN /\ Len(decoding) < MaxDecoding
            /\ nextStartTimeRef' = CursorAtEnqueue
            /\ decoding' = Append(decoding, [s |-> s, m |-> m, outCtx |-> audioContextOutRef])
            /\ ev' = ToolEv(Ev("message", s), m)
            /\ UNCHANGED <<transcriptions, textVars, sourcesRef>>
       ELSE /\ Finish(ToolEv(Ev("message", s), m), m, sourcesRef, nextStartTimeRef)
            /\ UNCHANGED decoding
  /\ UNCHANGED <<status, error, rubric, gradeVars, audioContextInRef,
                 audioContextOutRef, canvasRef, sessionRef, intervalRef,
                 nSessions, pc, closureRubric, instruction, ctxIn, ctxOut,
                 clock, ws, sessionPromise, capture, timers, imgInFlight,
                 tornDown>>

\* decodeAudioData: the decoded buffer lasts as long as the chunk
DecodeAudioData(audio) == [duration |-> audio]

\* the source node of App.tsx 224-228: started at the cursor on context
\* outCtx; it ends dur after the later of its start time and the clock
Source(outCtx, audio) ==
  [ctx |-> outCtx, start |-> nextStartTimeRef,
   duration |-> DecodeAudioData(audio).duration,
   end |-> Max(nextStartTimeRef, clock[outCtx]) + DecodeAudioData(audio).duration]

\* decodeAudioData resolves and onmessage resumes (App.tsx 223-275)
Decoded(i) ==
  /\ i \in 1..Len(decoding)
  /\ LET d == decoding[i]
         src == Source(d.outCtx, d.m.audio)
     IN
     /\ nextStartTimeRef + src.duration <= MaxCursor
     /\ Finish(Ev("decoded", d.s), d.m, sourcesRef \cup {src},
               nextStartTimeRef + src.duration)
  /\ decoding' = SubSeq(decoding, 1, i - 1) \o SubSeq(decoding, i + 1, Len(decoding))
  /\ outbox' = <<>>
  /\ UNCHANGED <<status, error, rubric, gradeVars, audioContextInRef,
                 audioContextOutRef, canvasRef, sessionRef, intervalRef,
                 nSessions, pc, closureRubric, instruction, ctxIn, ctxOut,
                 clock, ws, sessionPromise, capture, timers, imgInFlight,
                 tornDown>>

\* the 'ended' listener of a source whose playback finished (App.tsx 227)
Ended(src) ==
  /\ src \in sourcesRef
  /\ ctxOut[src.ctx] = "running"
  /\ clock[src.ctx] >= src.end
  /\ sourcesRef' = sourcesRef \ {src}
  /\ ev' = Ev("ended", src.ctx)
  /\ outbox' = <<>>
  /\ UNCHANGED <<status, transcriptions, error, rubric, gradeVars, textVars,
                 audioContextInRef, audioContextOutRef, nextStartTimeRef,
                 canvasRef, sessionRef, intervalRef, nSessions, pc,
                 closureRubric, instruction, ctxIn, ctxOut, clock, ws,
                 sessionPromise, capture, timers, imgInFlight, decoding,
                 tornDown>>

\* the output clock of a running context advances
ClockTick(s) ==
  /\ ctxOut[s] = "running"
  /\ clock[s] < MaxClock
  /\ clock' = [clock EXCEPT ![s] = @ + 1]
  /\ ev' = Ev("clock", s)
  /\ outbox' = <<>>
  /\ UNCHANGED <<status, transcriptions, error, rubric, gradeVars, textVars,
                 audioContextInRef, audioContextOutRef, nextStartTimeRef,
                 sourcesRef, canvasRef, sessionRef, intervalRef, nSessions, pc,
                 closureRubric, instruction, ctxIn, ctxOut, ws, sessionPromise,
                 capture, timers, imgInFlight, decoding, tornDown>>

\* ------------------------------------------------- transport error and close
\* callbacks.onerror (App.tsx 276-280): the transport of s has failed; it
\* carries nothing from then on and its close follows
OnError(s) ==
  /\ ws[s] \in {"connecting", "open"}
  /\ ws' = [ws EXCEPT ![s] = "failed"]
  /\ error' = SessionErrorMsg
  /\ cleanup
  /\ ev' = Teardown("error", s)
  /\ outbox' = <<>>
  /\ UNCHANGED <<transcriptions, rubric, gradeVars, audioContextInRef,
                 audioContextOutRef, nextStartTimeRef, canvasRef, intervalRef,
                 nSessions, pc, closureRubric, instruction, clock,
                 sessionPromise, capture, imgInFlight, decoding>>

\* onclose that also reports the error message
OnCloseWithMessage(s) ==
  /\ ws[s] \in {"open", "failed"}
  /\ ws' = [ws EXCEPT ![s] = "closed"]
  /\ error' = SessionErrorMsg
  /\ cleanup
  /\ ev' = Teardown("close", s)
  /\ outbox' = <<>>
  /\ UNCHANGED <<transcriptions, rubric, gradeVars, audioContextInRef,
                 audioContextOutRef, nextStartTimeRef, canvasRef, intervalRef,
                 nSessions, pc, closureRubric, instruction, clock,
                 sessionPromise, capture, imgInFlight, decoding>>

\* callbacks.onclose (App.tsx 281): the transport of s has closed
OnClose(s) ==
  /\ ws[s] \in {"open", "failed"}
  /\ ws' = [ws EXCEPT ![s] = "closed"]
  /\ cleanup
  /\ ev' = Teardown("close", s)
  /\ outbox' = <<>>
  /\ UNCHANGED <<transcriptions, error, rubric, gradeVars, audioContextInRef,
                 audioContextOutRef, nextStartTimeRef, canvasRef, intervalRef,
                 nSessions, pc, closureRubric, instruction, clock,
                 sessionPromise, capture, imgInFlight, decoding>>

\* the Disconnect button, rendered while CONNECTED (App.tsx 391-397)
Disconnect ==
  /\ status = CONNECTED
  /\ cleanup
  /\ ev' = Teardown("disconnect", 0)
  /\ outbox' = <<>>
  /\ UNCHANGED <<transcriptions, error, rubric, gradeVars, audioContextInRef,
                 audioContextOutRef, nextStartTimeRef, canvasRef, intervalRef,
                 nSessions, pc, closureRubric, instruction, clock, ws,
                 sessionPromise, capture, imgInFlight, decoding>>

\* ----------------------------------------------------------- outbound frames
\* scriptProcessor.onaudioprocess (App.tsx 167-171): fires while the input
\* context of the invocation runs
AudioProcess(s) ==
  /\ capture[s]
  /\ ctxIn[s] = "running"
  /\ sessionPromise[s] = "resolved"
  /\ ev' = Ev("audioFrame", s)
  /\ outbox' = <<Out("audio", s, <<>>)>>
  /\ UNCHANGED <<status, transcriptions, error, rubric, gradeVars, textVars,
                 audioContextInRef, audioContextOutRef, nextStartTimeRef,
                 sourcesRef, canvasRef, sessionRef, intervalRef, nSessions, pc,
                 closureRubric, instruction, ctxIn, ctxOut, clock, ws,
                 sessionPromise, capture, timers, imgInFlight, decoding,
                 tornDown>>

\* the setInterval callback (App.tsx 175-190): canvas.toBlob is started
SamplerTick(s) ==
  /\ s \in timers
  /\ IF canvasRef
       THEN /\ imgInFlight[s] < MaxInFlight
            /\ imgInFlight' = [imgInFlight EXCEPT ![s] = @ + 1]
       ELSE UNCHANGED imgInFlight
  /\ ev' = Ev("tick", s)
  /\ outbox' = <<>>
  /\ UNCHANGED <<status, transcriptions, error, rubric, gradeVars, textVars,
                 audioContextInRef, audioContextOutRef, nextStartTimeRef,
                 sourcesRef, canvasRef, sessionRef, intervalRef, nSessions, pc,
                 closureRubric, instruction, ctxIn, ctxOut, clock, ws,
                 sessionPromise, capture, timers, decoding, tornDown>>

\* the toBlob callback and FileReader.onloadend (App.tsx 177-187): the image
\* frame is sent when a blob was produced
ImageEncoded(s, blob) ==
  /\ imgInFlight[s] > 0
  /\ sessionPromise[s] = "resolved"
  /\ imgInFlight' = [imgInFlight EXCEPT ![s] = @ - 1]
  /\ ev' = Ev("image", s)
  /\ outbox' = IF blob THEN <<Out("image", s, <<>>)>> ELSE <<>>
  /\ UNCHANGED <<status, transcriptions, error, rubric, gradeVars, textVars,
                 audioContextInRef, audioContextOutRef, nextStartTimeRef,
                 sourcesRef, canvasRef, sessionRef, intervalRef, nSessions, pc,
                 closureRubric, instruction, ctxIn, ctxOut, clock, ws,
                 sessionPromise, capture, timers, decoding, tornDown>>

\* ------------------------------------------------------------------ grading
\* response.text of generateContent: no text, text that is not JSON, or a
\* JSON object; a field of the object is undefined (absent), "" or a text
Bodies ==
  [text : {"none", "malformed"}, grade : {"undefined"}, feedback : {"undefined"}]
  \cup [text : {"object"}, grade : {"undefined", "", "A"},
        feedback : {"undefined", "Well done"}]

GradePlaceholder == "N/A"
FeedbackPlaceholder == "Could not generate feedback."

\* JSON.parse(response.text || '{}') (App.tsx 337): parsed is FALSE when it throws
ParseBody(b) ==
  [parsed |-> b.text # "malformed", grade |-> b.grade, feedback |-> b.feedback]

\* the left operand of || is kept unless it is falsy
Truthy(v) == v \notin {"undefined", ""}

\* the report stored without the placeholders
GradeReportRaw(r) == [grade |-> r.grade, feedback |-> r.feedback]

\* the argument of setFinalGrade (App.tsx 338-341)
GradeReport(r) ==
  [grade |-> IF Truthy(r.grade) THEN r.grade ELSE GradePlaceholder,
   feedback |-> IF Truthy(r.feedback) THEN r.feedback ELSE FeedbackPlaceholder]

\* a Finish & Grade button that is not disabled while grading
GradeAlways == status = CONNECTED

\* the Finish & Grade button is rendered while CONNECTED and disabled while
\* isGrading (App.tsx 377-380)
GradeEnabled == status = CONNECTED /\ ~isGrading

\* handleGradeAssignment up to await generateContent (App.tsx 303-335)
GradeAssignment ==
  /\ GradeEnabled
  /\ IF canvasRef
       THEN /\ grading < MaxGrading
            /\ isGrading' = TRUE
            /\ grading' = grading + 1
            /\ outbox' = <<[kind |-> "generateContent", s |-> 0,
                            body |-> <<rubric, transcriptions>>, delivered |-> TRUE]>>
       ELSE /\ UNCHANGED <<isGrading, grading>>
            /\ outbox' = <<>>
  /\ ev' = Ev("grade", 0)
  /\ UNCHANGED <<status, transcriptions, error, rubric, finalGrade, textVars,
                 audioContextInRef, audioContextOutRef, nextStartTimeRef,
                 sourcesRef, canvasRef, sessionRef, intervalRef, nSessions, pc,
                 closureRubric, instruction, ctxIn, ctxOut, clock, ws,
                 sessionPromise, capture, timers, imgInFlight, decoding,
                 tornDown>>

\* the catch block, were it to tear the session down as the response does
GradeCaughtTearsDown(op) ==
  /\ grading' = grading - 1
  /\ isGrading' = FALSE
  /\ error' = GradingErrorMsg
  /\ cleanup
  /\ ev' = Teardown(op, 0)
  /\ outbox' = <<>>
  /\ UNCHANGED <<transcriptions, rubric, finalGrade, audioContextInRef,
                 audioContextOutRef, nextStartTimeRef, canvasRef, intervalRef,
                 nSessions, pc, closureRubric, instruction, clock, ws,
                 sessionPromise, capture, imgInFlight, decoding>>

\* the catch and finally blocks of handleGradeAssignment (App.tsx 343-348)
GradeCaught(op) ==
  /\ grading' = grading - 1
  /\ isGrading' = FALSE
  /\ error' = GradingErrorMsg
  /\ ev' = Ev(op, 0)
  /\ outbox' = <<>>
  /\ UNCHANGED <<status, transcriptions, rubric, finalGrade, textVars,
                 audioContextInRef, audioContextOutRef, nextStartTimeRef,
                 sourcesRef, canvasRef, sessionRef, intervalRef, nSessions, pc,
                 closureRubric, instruction, ctxIn, ctxOut, clock, ws,
                 sessionPromise, capture, timers, imgInFlight, decoding,
                 tornDown>>

\* generateContent resolves, with the report stored and no teardown
GradeResponseNoTeardown(b) ==
  /\ grading > 0
  /\ IF ParseBody(b).parsed
       THEN /\ grading' = grading - 1
            /\ isGrading' = FALSE
            /\ finalGrade' = GradeReport(ParseBody(b))
            /\ ev' = [Teardown("gradeResponse", 0) EXCEPT !.body = b]
            /\ outbox' = <<>>
            /\ UNCHANGED <<status, transcriptions, error, rubric, textVars,
                           audioContextInRef, audioContextOutRef,
                           nextStartTimeRef, sourcesRef, canvasRef, sessionRef,
                           intervalRef, nSessions, pc, closureRubric,
                           instruction, ctxIn, ctxOut, clock, ws,
                           sessionPromise, capture, timers, imgInFlight,
                           decoding, tornDown>>
       ELSE GradeCaught("gradeMalformed")

\* generateContent resolves (App.tsx 337-348): the body is parsed, the report
\* stored and the session torn down; a body JSON.parse rejects goes to catch
GradeResponse(b) ==
  /\ grading > 0
  /\ IF ParseBody(b).parsed
       THEN /\ grading' = grading - 1
            /\ isGrading' = FALSE
            /\ finalGrade' = GradeReport(ParseBody(b))
            /\ cleanup
            /\ ev' = [Teardown("gradeResponse", 0) EXCEPT !.body = b]
            /\ outbox' = <<>>
            /\ UNCHANGED <<transcriptions, error, rubric, audioContextInRef,
                           audioContextOutRef, nextStartTimeRef, canvasRef,
                           intervalRef, nSessions, pc, closureRubric,
                           instruction, clock, ws, sessionPromise, capture,
                           imgInFlight, decoding>>
       ELSE GradeCaught("gradeMalformed")

\* generateContent rejects, with the finally block missing
GradeFailedKeepsFlag ==
  /\ grading > 0
  /\ grading' = grading - 1
  /\ error' = GradingErrorMsg
  /\ ev' = Ev("gradeFailed", 0)
  /\ outbox' = <<>>
  /\ UNCHANGED <<status, transcriptions, rubric, finalGrade, isGrading,
                 textVars, audioContextInRef, audioContextOutRef,
                 nextStartTimeRef, sourcesRef, canvasRef, sessionRef,
                 intervalRef, nSessions, pc, closureRubric, instruction, ctxIn,
                 ctxOut, clock, ws, sessionPromise, capture, timers,
                 imgInFlight, decoding, tornDown>>

\* generateContent rejects (App.tsx 343-348)
GradeFailed ==
  /\ grading > 0
  /\ GradeCaught("gradeFailed")

\* ------------------------------------------------------------- presentation
\* handleCanvasRef (App.tsx 107-109); MathCanvas hands over its canvas once it
\* is laid out (App.tsx 624) and never takes it back
HandleCanvasRef(c) ==
  /\ c # canvasRef
  /\ canvasRef' = c
  /\ ev' = Ev("canvas", 0)
  /\ outbox' = <<>>
  /\ UNCHANGED <<status, transcriptions, error, rubric, gradeVars, textVars,
                 audioContextInRef, audioContextOutRef, nextStartTimeRef,
                 sourcesRef, sessionRef, intervalRef, nSessions, pc,
                 closureRubric, instruction, ctxIn, ctxOut, clock, ws,
                 sessionPromise, capture, timers, imgInFlight, decoding,
                 tornDown>>

\* the rubric editor: setRubric (App.tsx 525, 534)
SetRubric(r) ==
  /\ r # rubric
  /\ rubric' = r
  /\ ev' = Ev("setRubric", 0)
  /\ outbox' = <<>>
  /\ UNCHANGED <<status, transcriptions, error, gradeVars, textVars,
                 audioContextInRef, audioContextOutRef, nextStartTimeRef,
                 sourcesRef, canvasRef, sessionRef, intervalRef, nSessions, pc,
                 closureRubric, instruction, ctxIn, ctxOut, clock, ws,
                 sessionPromise, capture, timers, imgInFlight, decoding,
                 tornDown>>

\* ----------------------------------------------------------- specifications
\* the events of the lifecycle specification: an audio chunk, a pair of
\* partial transcripts, a turn completion
LifeMsgs ==
  { Msg(FALSE, <<>>, 1, FALSE, <<>>, <<>>, FALSE),
    Msg(FALSE, <<>>, 0, FALSE, <<"a">>, <<"a">>, FALSE),
    Msg(FALSE, <<>>, 0, FALSE, <<>>, <<>>, TRUE) }

\* the session lifecycle: start, its failures, the transport callbacks,
\* teardown, over MaxSessions invocations of startTutoring
Next ==
  \/ StartTutoring
  \/ \E s \in Sessions : MicGranted(s)
  \/ \E s \in Sessions : MicDenied(s)
  \/ \E s \in Sessions : ConnectRejected(s)
  \/ \E s \in Sessions : OnOpen(s)
  \/ \E s \in Sessions : ConnectResolved(s)
  \/ \E s \in Sessions, m \in LifeMsgs : OnMessage(s, m)
  \/ \E i \in 1..MaxDecoding : Decoded(i)
  \/ \E s \in Sessions : OnError(s)
  \/ \E s \in Sessions : OnClose(s)
  \/ Disconnect

Spec == Init /\ [][Next]_vars

\* a session is brought up (no failure, no teardown)
Connect ==
  \/ StartTutoring
  \/ \E s \in Sessions : MicGranted(s)
  \/ \E s \in Sessions : OnOpen(s)
  \/ \E s \in Sessions : ConnectResolved(s)

\* the transcript aggregator: every server-content event without audio
TurnMsgs == ServerContent({0}, Chunks)

NextTurn ==
  \/ Connect
  \/ \E s \in Sessions, m \in TurnMsgs : OnMessage(s, m)

SpecTurn == Init /\ [][NextTurn]_vars

\* the tool-call dispatcher: every tool-call event, before and after the
\* canvas is mounted
NextTool ==
  \/ Connect
  \/ \E s \in Sessions, m \in ToolCallEvents : OnMessage(s, m)
  \/ HandleCanvasRef(TRUE)

SpecTool == Init /\ [][NextTool]_vars

\* the playback scheduler: audio chunks, interruptions and turn completions
AudioMsgs == ServerContent(0..MaxDur, {<<>>})

NextAudio ==
  \/ Connect
  \/ \E s \in Sessions, m \in AudioMsgs : OnMessage(s, m)
  \/ \E i \in 1..MaxDecoding : Decoded(i)
  \/ \E src \in sourcesRef : Ended(src)
  \/ \E s \in Sessions : ClockTick(s)

SpecAudio == Init /\ [][NextAudio]_vars

\* the capture pipeline and the frame sampler, with every teardown trigger
NextFrames ==
  \/ Connect
  \/ \E s \in Sessions : OnError(s)
  \/ \E s \in Sessions : OnClose(s)
  \/ Disconnect
  \/ \E s \in Sessions : AudioProcess(s)
  \/ \E s \in Sessions : SamplerTick(s)
  \/ \E s \in Sessions, blob \in BOOLEAN : ImageEncoded(s, blob)
  \/ HandleCanvasRef(TRUE)

SpecFrames == Init /\ [][NextFrames]_vars

\* the system instruction: every rubric text, edited before a start
RubricTexts == Strings(RubricChars, MaxRubricLen)

NextRubric ==
  \/ \E r \in RubricTexts : SetRubric(r)
  \/ StartTutoring
  \/ \E s \in Sessions : MicGranted(s)
  \/ \E s \in Sessions : MicDenied(s)

SpecRubric == Init /\ [][NextRubric]_vars

\* no task is running: the continuation of await decodeAudioData is a
\* microtask of the task that received the message, and runs before any
\* other event is dispatched or the clock the page sees is updated
Task == decoding = <<>>

\* the playback scheduler with the decode completing within its task
NextPlayback ==
  \/ Connect
  \/ Task /\ \E s \in Sessions, m \in AudioMsgs : OnMessage(s, m)
  \/ \E i \in 1..MaxDecoding : Decoded(i)
  \/ Task /\ \E src \in sourcesRef : Ended(src)
  \/ Task /\ \E s \in Sessions : ClockTick(s)

SpecPlayback == Init /\ [][NextPlayback]_vars

\* the events of the history specification: a pair of partial transcripts,
\* an audio chunk, an interruption, a turn completion, and a tool-call event
\* with an unknown name
HistCall(name) == [id |-> 1, name |-> name, args |-> [x |-> 500, y |-> 500, size |-> 100]]

HistMsgs ==
  { Msg(FALSE, <<>>, 0, FALSE, <<"a">>, <<"a">>, FALSE),
    Msg(FALSE, <<>>, 1, FALSE, <<>>, <<>>, FALSE),
    Msg(FALSE, <<>>, 0, TRUE, <<>>, <<>>, FALSE),
    Msg(FALSE, <<>>, 0, FALSE, <<>>, <<>>, TRUE),
    Msg(TRUE, <<HistCall(UnknownTool)>>, 0, FALSE, <<>>, <<>>, FALSE) }

\* the transcript history over a session: every kind of inbound event, the
\* transport error and close, and the user's stop and restart
NextHistory ==
  \/ Connect
  \/ \E s \in Sessions, m \in HistMsgs : OnMessage(s, m)
  \/ \E i \in 1..MaxDecoding : Decoded(i)
  \/ \E s \in Sessions : OnError(s)
  \/ \E s \in Sessions : OnClose(s)
  \/ Disconnect

SpecHistory == Init /\ [][NextHistory]_vars

\* the events of the grading specification: an audio chunk with its
\* transcript, and a turn completion
GradeMsgs ==
  { Msg(FALSE, <<>>, 1, FALSE, <<>>, <<"a">>, FALSE),
    Msg(FALSE, <<>>, 0, FALSE, <<>>, <<>>, TRUE) }

\* grading: the Finish & Grade button during a session with audio, partial
\* transcripts and turn completions, the session ended by the user or by
\* the grading itself
GradeSettled ==
  \/ \E b \in Bodies : GradeResponse(b)
  \/ GradeFailed

NextGrade ==
  \/ Connect
  \/ HandleCanvasRef(TRUE)
  \/ \E s \in Sessions, m \in GradeMsgs : OnMessage(s, m)
  \/ \E i \in 1..MaxDecoding : Decoded(i)
  \/ Disconnect
  \/ GradeAssignment
  \/ GradeSettled

SpecGrade == Init /\ [][NextGrade]_vars

\* the generateContent promise settles: it resolves or rejects
SpecGradeFair == SpecGrade /\ WF_vars(GradeSettled)

\* ------------------------------------------------------------------ claims
IsBlank(str) == \A i \in DOMAIN str : str[i] = " "

BuffersEmpty ==
  /\ currentInputRef = <<>>
  /\ currentOutputRef = <<>>
  /\ activeUserText = <<>>
  /\ activeModelText = <<>>

\* the entries a turn completion owes for buffer contents in and out
EntriesFor(in, out) ==
  SelectSeq(<<[role |-> "user", text |-> Trim(in)],
              [role |-> "model", text |-> Trim(out)]>>,
            LAMBDA e : e.text # <<>>)

\* C1: a turn completion appends to the history one entry for each
\* ActiveBuffer that is not blank, with the trimmed content as text, the
\* Student entry before the Mentor entry, and leaves both buffers and both
\* live partial texts empty.
C1_TurnCompleteCommits ==
  [][ev'.turnComplete =>
       /\ transcriptions' = transcriptions \o EntriesFor(ev'.tcIn, ev'.tcOut)
       /\ Len(transcriptions') - Len(transcriptions)
            = (IF IsBlank(ev'.tcIn) THEN 0 ELSE 1) + (IF IsBlank(ev'.tcOut) THEN 0 ELSE 1)
       /\ BuffersEmpty']_vars

\* a whitespace-only Student buffer and a Mentor buffer with text were
\* committed: the history ends with the one Mentor entry
C1_Witness ==
  /\ ev.turnComplete
  /\ ev.tcIn = <<" ", " ">>
  /\ ev.tcOut = <<"a">>
  /\ transcriptions = <<[role |-> "model", text |-> <<"a">>]>>
  /\ BuffersEmpty

\* C2: a turn completion reached with both ActiveBuffers empty or
\* whitespace-only leaves the history as it was.
C2_SilentTurn ==
  [][(ev'.turnComplete /\ IsBlank(ev'.tcIn) /\ IsBlank(ev'.tcOut)) =>
       transcriptions' = transcriptions]_vars

\* a silent turn was completed after an earlier turn had committed an entry
C2_Witness ==
  /\ ev.turnComplete
  /\ ev.tcIn = <<" ">>
  /\ ev.tcOut = <<" ", " ">>
  /\ Len(transcriptions) = 1

\* the result owed to request c
ResultFor(c) ==
  [id |-> c.id, name |-> c.name,
   result |-> IF c.name = DrawSquare THEN ToolOk ELSE ToolNotFound]

\* exactly one tool-result message went out, answering calls in order
OneBatch(s, calls) ==
  /\ Len(outbox) = 1
  /\ outbox[1].kind = "toolResponse"
  /\ outbox[1].s = s
  /\ outbox[1].delivered
  /\ Len(outbox[1].body) = Len(calls)
  /\ \A i \in 1..Len(calls) : outbox[1].body[i] = ResultFor(calls[i])

\* C3 as claimed: every tool-call event is answered by exactly one
\* tool-result message holding one result per request, in request order.
C3_OneBatchPerEvent ==
  ev.toolCall => OneBatch(ev.s, ev.calls)

\* C3, amended: a tool-call event with at least one request is answered by
\* exactly one tool-result message holding one result per request in request
\* order, each with the request's id and name, "ok" for draw_square and the
\* error payload otherwise; an event with no request is answered by no message.
C3_OneBatchPerNonEmptyEvent ==
  ev.toolCall =>
    IF ev.calls = <<>> THEN outbox = <<>> ELSE OneBatch(ev.s, ev.calls)

\* a declared and an unknown request were answered in one batch
C3_Witness ==
  /\ ev.toolCall
  /\ Len(ev.calls) = 2
  /\ ev.calls[1].name = DrawSquare
  /\ ev.calls[2].name = UnknownTool
  /\ ev.calls[1].id # ev.calls[2].id
  /\ Len(outbox) = 1
  /\ outbox[1].body[1].result = ToolOk
  /\ outbox[1].body[2].result = ToolNotFound

\* C4 as claimed: right after an interruption the pending set is empty and
\* the cursor equals the current time of the output clock.
C4_CursorIsClockNow ==
  ev.interrupted =>
    /\ sourcesRef = {}
    /\ audioContextOutRef # 0 => nextStartTimeRef = clock[audioContextOutRef]

\* C4, amended: right after an interruption the pending set is empty and the
\* cursor is 0, which is never later than the output clock.
C4_CursorIsZero ==
  ev.interrupted =>
    /\ sourcesRef = {}
    /\ nextStartTimeRef = 0
    /\ audioContextOutRef # 0 => nextStartTimeRef <= clock[audioContextOutRef]

\* an interruption stopped two pending segments while the clock had advanced
C4_Witness ==
  /\ ev.interrupted
  /\ ev.stopped >= 2
  /\ clock[audioContextOutRef] > 0
  /\ sourcesRef = {}

\* what teardown leaves
TornDownState ==
  /\ status = IDLE
  /\ BuffersEmpty
  /\ sourcesRef = {}
  /\ sessionRef = 0

\* everything cleanup reads or writes
TeardownView ==
  <<status, activeUserText, activeModelText, currentInputRef, currentOutputRef,
    sourcesRef, sessionRef, timers, ctxIn, ctxOut, audioContextInRef,
    audioContextOutRef, intervalRef, nextStartTimeRef, transcriptions>>

\* C5: teardown from any status leaves status Idle, both buffers empty, the
\* pending set empty and the session reference dropped, and a teardown that
\* directly follows a teardown changes nothing of that state.
C5_TeardownIdempotent ==
  [][ev'.teardown =>
       /\ TornDownState'
       /\ ev.teardown => TeardownView' = TeardownView]_vars

\* the close that follows a transport error ran teardown a second time
C5_Witness ==
  /\ ev.teardown
  /\ ev.prevTeardown
  /\ ev.from = IDLE
  /\ ev.op = "close"
  /\ TornDownState

\* an open transport with its capture callback firing and its sampler timer set
Live(s) ==
  /\ ws[s] = "open"
  /\ capture[s]
  /\ ctxIn[s] = "running"
  /\ s \in timers

C7_NoFrameAfterTeardown ==
  \A i \in 1..Len(outbox) :
    (outbox[i].kind \in {"audio", "image"} /\ outbox[i].delivered)
      => outbox[i].s \notin tornDown

\* C8: when getUserMedia fails the handling ends with status Error, an error
\* message, both audio contexts closed, no session reference, no sampler
\* timer, an empty pending set and empty buffers.
C8_MicFailureEndsInError ==
  ev.op = "micDenied" =>
    /\ status = ERROR
    /\ error # NoError
    /\ ctxIn[ev.s] = "closed"
    /\ ctxOut[ev.s] = "closed"
    /\ sessionRef = 0
    /\ ev.s \notin timers
    /\ sourcesRef = {}
    /\ BuffersEmpty

\* C9 as claimed: a transport error and a transport close in Connected state
\* both end in teardown with an error message set.
C9_ErrorAndCloseAlike ==
  (ev.op \in {"error", "close"} /\ ev.from = CONNECTED) =>
    /\ TornDownState
    /\ error # NoError

\* C9, amended: a transport error and a transport close both end in
\* teardown; the error sets the error message, the close leaves the error
\* message as it was.
C9_ErrorSetsMessageCloseDoesNot ==
  [][/\ ev'.op = "error" => (TornDownState' /\ error' = SessionErrorMsg)
     /\ ev'.op = "close" => (TornDownState' /\ error' = error)]_vars

\* a close in Connected state tore the session down and set no message
C9_Witness ==
  /\ ev.op = "close"
  /\ ev.from = CONNECTED
  /\ TornDownState
  /\ error = NoError

Has(seq, x) == \E i \in DOMAIN seq : seq[i] = x

\* C10: the system instruction starts with the base persona; a rubric that
\* is not blank gives the greet clause followed by the rubric text, a blank
\* rubric gives the wait clause and no rubric text; never both clauses.
C10_InstructionFollowsRubric ==
  \A s \in Sessions :
    ws[s] # "none" =>
      LET r == closureRubric[s]
          ins == instruction[s]
      IN
      /\ Head(ins) = BaseSystemInstruction
      /\ Has(ins, GreetClause) # Has(ins, WaitClause)
      /\ Has(ins, GreetClause) <=> ~IsBlank(r)
      /\ IF IsBlank(r)
           THEN /\ ~Has(ins, RubricHeader)
                /\ \A c \in RubricChars : ~Has(ins, c)
           ELSE /\ Has(ins, RubricHeader)
                /\ SubSeq(ins, Len(ins) - Len(r) + 1, Len(ins)) = r
                /\ ins[Len(ins) - Len(r)] = RubricHeader

\* an instruction was built from a whitespace-only rubric
C10_Witness ==
  \E s \in Sessions :
    /\ ws[s] # "none"
    /\ closureRubric[s] = <<" ", " ">>
    /\ Has(instruction[s], WaitClause)

GradeOutcomes == {"gradeResponse", "gradeMalformed", "gradeFailed"}

\* C11: every outcome of a grading request (parsed response, malformed
\* response, failed request) leaves the grading-in-progress flag false, and a
\* flag that is set is eventually cleared.
C11_GradingFlagClears ==
  /\ [][ev'.op \in GradeOutcomes => ~isGrading']_vars
  /\ (isGrading ~> ~isGrading)

\* a malformed response ended a grading and the flag is clear
C11_Witness ==
  /\ ev.op = "gradeMalformed"
  /\ ~isGrading
  /\ grading = 0

\* C12: at most one grading request is in flight, and a request begins only
\* while the grading-in-progress flag is false.
C12_OneGradingInFlight ==
  [][/\ grading' <= 1
     /\ grading' > grading => ~isGrading]_vars

\* a second request is in flight after the first one failed
C12_Witness ==
  /\ grading = 1
  /\ isGrading
  /\ ev.op = "grade"
  /\ error = GradingErrorMsg

\* C13: a response whose body is not well-formed JSON still stores a report
\* with both placeholders and raises no grading-failure error.
C13_MalformedGivesPlaceholders ==
  ev.op = "gradeMalformed" =>
    /\ finalGrade = [grade |-> GradePlaceholder, feedback |-> FeedbackPlaceholder]
    /\ error # GradingErrorMsg

\* C14 as claimed: each field present in the parsed body is stored as
\* provided, each missing field as its placeholder.
C14_PresentFieldsKept ==
  (ev.op = "gradeResponse") =>
    /\ finalGrade.grade = (IF ev.body.grade = "undefined" THEN GradePlaceholder
                           ELSE ev.body.grade)
    /\ finalGrade.feedback = (IF ev.body.feedback = "undefined" THEN FeedbackPlaceholder
                              ELSE ev.body.feedback)
    /\ ~isGrading

\* C14, amended: each field that is missing or empty in the parsed body is
\* stored as its placeholder, every other field as provided, and the
\* grading-in-progress flag is false afterwards.
C14_MissingOrEmptyFieldsDefault ==
  [][(ev'.op = "gradeResponse") =>
       /\ finalGrade'.grade = (IF ev'.body.grade \in {"undefined", ""}
                               THEN GradePlaceholder ELSE ev'.body.grade)
       /\ finalGrade'.feedback = (IF ev'.body.feedback \in {"undefined", ""}
                                  THEN FeedbackPlaceholder ELSE ev'.body.feedback)
       /\ ~isGrading']_vars

\* a body with a grade and no feedback was stored
C14_Witness ==
  /\ ev.op = "gradeResponse"
  /\ ev.body.text = "object"
  /\ ev.body.grade = "A"
  /\ ev.body.feedback = "undefined"
  /\ finalGrade = [grade |-> "A", feedback |-> FeedbackPlaceholder]
  /\ ~isGrading

\* C15: a grading that receives and parses a response stores the report and
\* tears the session down: a report is present, the status is Idle, the
\* buffers and the pending set are empty.
C15_GradingEndsSession ==
  [][(ev'.op = "gradeResponse") =>
       /\ finalGrade' # NoGrade
       /\ TornDownState']_vars

\* a grading ended a Connected session that had a history
C15_Witness ==
  /\ ev.op = "gradeResponse"
  /\ ev.from = CONNECTED
  /\ transcriptions # <<>>
  /\ finalGrade # NoGrade
  /\ TornDownState

\* C16: with no interruption, a segment is started at the later of the
\* cursor and the output clock, not before the end of any segment scheduled
\* before it, and the cursor is left at that start plus the duration: two
\* segments enqueued back to back from s leave the cursor at s + d1 + d2.
C16_GaplessPlayback ==
  [][(ev'.op = "decoded" /\ ~ev'.interrupted) =>
       \E src \in sourcesRef' \ sourcesRef :
         /\ sourcesRef' = sourcesRef \cup {src}
         /\ src.start = (IF nextStartTimeRef >= clock[src.ctx]
                           THEN nextStartTimeRef ELSE clock[src.ctx])
         /\ \A prev \in sourcesRef : src.start >= prev.end
         /\ \A prev \in sourcesRef : src.start >= prev.start + prev.duration
         /\ nextStartTimeRef' = src.start + src.duration
         /\ \A prev \in sourcesRef :
              src.start = prev.start + prev.duration =>
                nextStartTimeRef' = prev.start + prev.duration + src.duration]_vars

\* two segments of durations 1 and 2 were enqueued back to back from time 1
C16_Witness ==
  /\ ev.op = "decoded"
  /\ ~ev.interrupted
  /\ \E s1, s2 \in sourcesRef :
       /\ s1.start = 1 /\ s1.duration = 1
       /\ s2.start = 2 /\ s2.duration = 2
  /\ nextStartTimeRef = 4

IsPrefix(a, b) == Len(a) <= Len(b) /\ SubSeq(b, 1, Len(a)) = a

\* C17: between one start and the next the history only grows at its end,
\* and only a turn completion changes it: no partial transcript, audio,
\* interruption, tool call, error, close or teardown does.
C17_HistoryAppendOnly ==
  [][ev'.op # "start" =>
       /\ IsPrefix(transcriptions, transcriptions')
       /\ transcriptions' # transcriptions => ev'.turnComplete]_vars

\* a transport error tore down a session whose history was kept
C17_Witness ==
  /\ ev.op = "error"
  /\ ev.from = CONNECTED
  /\ Len(transcriptions) = 2
  /\ transcriptions[1].role = "user"

\* C18 as claimed: after teardown both buffers are empty and the history is
\* empty.
C18_TeardownEmptiesHistory ==
  ev.teardown => (BuffersEmpty /\ transcriptions = <<>>)

\* C18, amended: teardown empties both buffers and both live texts and leaves
\* the history as it was; the history is emptied by the next start.
C18_TeardownKeepsHistory ==
  [][/\ ev'.teardown => (BuffersEmpty' /\ transcriptions' = transcriptions)
     /\ ev'.op = "start" => transcriptions' = <<>>]_vars

\* the user stopped a session that had a history and an open turn
C18_Witness ==
  /\ ev.op = "disconnect"
  /\ ev.from = CONNECTED
  /\ transcriptions # <<>>
  /\ BuffersEmpty

\* C19: an interruption appends the marker to the Mentor buffer and commits
\* nothing: the history is unchanged, the Student buffer gains only the
\* message's own input transcript (nothing, for an interruption alone), and
\* the Mentor live text shows the buffer.
C19_InterruptionMarksBuffer ==
  [][(ev'.interrupted /\ ~ev'.turnComplete) =>
       /\ transcriptions' = transcriptions
       /\ currentOutputRef' = currentOutputRef \o <<" ", "[Interrupted]">> \o ev'.outText
       /\ activeModelText' = currentOutputRef'
       /\ currentInputRef' = currentInputRef \o ev'.inText]_vars

\* an interruption alone marked a Mentor buffer that held text
C19_Witness ==
  /\ ev.interrupted
  /\ ~ev.turnComplete
  /\ ev.inText = <<>>
  /\ ev.outText = <<>>
  /\ currentInputRef = <<"a">>
  /\ currentOutputRef = <<"a", " ", "[Interrupted]">>
  /\ activeModelText = currentOutputRef

\* C20: a tool-call event naming an unknown tool leaves status, session
\* reference, buffers, live texts, history, pending set and error message as
\* they were, and answers the request with the error result.
C20_UnknownToolKeepsSession ==
  [][(ev'.toolCall /\ \E i \in DOMAIN ev'.calls : ev'.calls[i].name # DrawSquare) =>
       /\ UNCHANGED <<status, sessionRef, currentInputRef, currentOutputRef,
                      activeUserText, activeModelText, transcriptions,
                      sourcesRef, error, nextStartTimeRef>>
       /\ ~ev'.teardown
       /\ Len(outbox') = 1
       /\ Len(outbox'[1].body) = Len(ev'.calls)
       /\ \A i \in DOMAIN ev'.calls :
            ev'.calls[i].name # DrawSquare =>
              /\ outbox'[1].body[i].id = ev'.calls[i].id
              /\ outbox'[1].body[i].result = ToolNotFound]_vars

\* an unknown tool was answered in a Connected session with a history, an
\* open turn and a pending segment
C20_Witness ==
  /\ ev.toolCall
  /\ ev.calls[1].name = UnknownTool
  /\ outbox[1].body[1].result = ToolNotFound
  /\ status = CONNECTED
  /\ sessionRef # 0
  /\ transcriptions # <<>>
  /\ currentOutputRef # <<>>
  /\ sourcesRef # {}

C22_EmptyingResetsCursor ==
  [][/\ (ev'.teardown \/ ev'.interrupted)
          => (sourcesRef' = {} /\ nextStartTimeRef' = CursorAfterInterrupt)
     /\ (ev'.op = "decoded" /\ ev'.s \notin tornDown /\ tornDown # {})
          => \E src \in sourcesRef' \ sourcesRef : src.start = clock[src.ctx]
     /\ (currentInputRef # <<>> /\ currentInputRef' = <<>>)
          => currentOutputRef' = <<>>
     /\ (currentOutputRef # <<>> /\ currentOutputRef' = <<>>)
          => currentInputRef' = <<>>]_vars

\* C23: an inbound event of a session that was torn down, handled before any
\* later start, has no effect: both buffers, the history and the pending
\* set stay as they were, nothing is drawn and nothing is sent.
C23_LateEventsIgnored ==
  [][(/\ ev'.op \in {"message", "decoded"}
      /\ ev'.s \in tornDown
      /\ ev'.s = nSessions) =>
       /\ UNCHANGED <<currentInputRef, currentOutputRef, transcriptions,
                      sourcesRef>>
       /\ ev'.draws = <<>>
       /\ outbox' = <<>>]_vars

\* C24: a teardown run by the close or error callback of a session that is
\* no longer the latest one leaves the later session alone: status, audio
\* contexts, sampler timers and buffers are unchanged.
C24_LateTeardownSparesLaterSession ==
  [][(/\ ev'.teardown
      /\ ev'.op \in {"close", "error"}
      /\ ev'.s < nSessions) =>
       UNCHANGED <<status, ctxIn, ctxOut, timers, currentInputRef,
                   currentOutputRef>>]_vars

\* C25: whenever the status is Idle no session reference is stored, also
\* when a teardown runs while the connect call of start is still to complete.
C25_IdleHasNoSession == status = IDLE => sessionRef = 0

\* C26: a grading request that fails without a response sets the error
\* message, stores no report (the report is what it was), clears the grading
\* flag and leaves the live session alone: status, session reference,
\* buffers, live texts, history, pending set, audio contexts and sampler
\* timers are unchanged.
C26_GradingFailureKeepsSession ==
  [][(ev'.op = "gradeFailed") =>
       /\ error' = GradingErrorMsg
       /\ isGrading' = FALSE
       /\ ~ev'.teardown
       /\ UNCHANGED <<status, sessionRef, currentInputRef, currentOutputRef,
                      activeUserText, activeModelText, transcriptions,
                      sourcesRef, ctxIn, ctxOut, timers, finalGrade>>]_vars

\* a grading request failed in a Connected session with a history, an open
\* turn and a pending segment
C26_Witness ==
  /\ ev.op = "gradeFailed"
  /\ status = CONNECTED
  /\ sessionRef # 0
  /\ error = GradingErrorMsg
  /\ ~isGrading
  /\ finalGrade = NoGrade
  /\ transcriptions # <<>>
  /\ currentOutputRef # <<>>
  /\ sourcesRef # {}

====
